---- MODULE Spec2Model ----
(***************************************************************************)
(* Model of montecarlo-ip-searcher.                                        *)
(*                                                                         *)
(*   SpecDNS    package dns: Upload driving a Cloudflare or Vercel         *)
(*              provider against the provider's record store.              *)
(*   SpecNew    package dns: NewProvider over configurations and           *)
(*              environments.                                              *)
(*   SpecSearch the search engine's coordinator / worker pool (budget,     *)
(*              beams, splits, channels), and SpecSearchFair, the same     *)
(*              with the scheduler's fairness.                             *)
(***************************************************************************)
EXTENDS Integers, Sequences, FiniteSets, TLC

VARIABLES
    \* ---- package dns: Upload and the providers
    provider,    \* Provider.Name(): "cloudflare" or "vercel"
    ips,         \* Upload's argument ips []netip.Addr
    records,     \* the records held at the DNS service, in listing order
    records0,    \* the records held when Upload was called
    zoneName,    \* CloudflareProvider.zoneName (cached zone name, "" = not fetched)
    nextID,      \* the id the service gives the next record it creates
    pc,          \* Upload's position
    v4,          \* Upload's local v4
    v6,          \* Upload's local v6
    uploadErr,   \* Upload's return value ("nil" or the wrapping prefix)
    calls,       \* the provider calls Upload has made, in order
    created,     \* the records the service created, in order
    deleted,     \* the records the service deleted, in order
    \* ---- package dns: NewProvider
    cfg,         \* the Config passed to NewProvider
    env,         \* the process environment
    result,      \* NewProvider's return value (done = FALSE before the call)
    \* ---- the search engine
    splitStep,   \* split_step of the roots' family
    rootBits,    \* the width of the root prefixes
    B,           \* the remaining probe budget
    cancelled,   \* the cancellation signal
    beams,       \* per head, the arms of its beam, in insertion order
    birth,       \* the arm birth counter
    turn,        \* the head the next iteration serves
    coordPc,     \* the coordinator's position: "loop", "drain", "done"
    dispatchQ,   \* the bounded dispatch channel
    closed,      \* the dispatch channel has been closed
    workers,     \* per worker: "idle", "probing" (and the probe), or "exited"
    resultQ,     \* the bounded result channel
    dispatched,  \* the number of probes submitted to the pool
    started,     \* the number of probes a worker has taken up
    ingested     \* the number of results ingested (the aggregator's updates)

dnsVars == <<provider, ips, records, records0, zoneName, nextID, pc, v4, v6,
             uploadErr, calls, created, deleted>>
newVars == <<cfg, env, result>>
searchVars == <<splitStep, rootBits, B, cancelled, beams, birth, turn, coordPc,
                dispatchQ, closed, workers, resultQ, dispatched, started, ingested>>
vars == <<dnsVars, newVars, searchVars>>

----------------------------------------------------------------------------
(* Bounds *)

\* longest list of addresses passed to Upload
MaxIPs == 2

\* the number of records the service returns for one list request, scaled
\* down (Vercel's and Cloudflare's list endpoints answer one page at a time)
PageLimit == 2

\* most records the zone holds before Upload is called
MaxExisting == PageLimit + 1

----------------------------------------------------------------------------
(* Small helpers *)

Last(s) == s[Len(s)]

SeqsUpTo(S, n) == UNION {[1..k -> S] : k \in 0..n}

Min(a, b) == IF a <= b THEN a ELSE b

----------------------------------------------------------------------------
(* net/netip.Addr as the package uses it: the zero Addr (z0), an IPv4       *)
(* address (z4), an IPv6 address (z6), of which the IPv4-mapped ones.      *)

ZeroAddr == [z |-> "z0", mapped |-> FALSE, n |-> 0]

Addrs ==
    { [z |-> "z4", mapped |-> FALSE, n |-> 1],
      [z |-> "z4", mapped |-> FALSE, n |-> 2],
      [z |-> "z6", mapped |-> FALSE, n |-> 1],
      [z |-> "z6", mapped |-> TRUE,  n |-> 1],
      ZeroAddr }

\* netip.Addr.Is4
Is4(ip) == ip.z = "z4"

\* netip.Addr.Is6: an IPv6 address, IPv4-mapped ones included
Is6(ip) == ip.z # "z0" /\ ip.z # "z4"

\* netip.Addr.String
AddrString(ip) ==
    IF ip.z = "z0" THEN <<"invalid IP", 0>>
    ELSE IF ip.z = "z4" THEN <<"dotted", ip.n>>
    ELSE IF ip.mapped THEN <<"::ffff:dotted", ip.n>>
    ELSE <<"colon", ip.n>>

----------------------------------------------------------------------------
(* The DNS service: a zone holding records.  A record's name is the        *)
(* relative name at Vercel ("cf") and the full domain name at Cloudflare   *)
(* (<<"cf", "example.com">>).                                              *)

\* Upload's argument subdomain
Subdomain == "cf"

\* another name of the same zone
OtherName == "www"

\* the name of the zone at the service
ServerZoneName == "example.com"

NameAt(prov, label) ==
    IF prov = "vercel" THEN label ELSE <<label, ServerZoneName>>

\* the records a zone may hold before Upload: type and relative name
ExistingKinds ==
    { [type |-> "A",    label |-> Subdomain],
      [type |-> "AAAA", label |-> Subdomain],
      [type |-> "A",    label |-> OtherName] }

ExistingRecords(prov, kinds) ==
    [i \in 1..Len(kinds) |->
        [id |-> i, type |-> kinds[i].type, name |-> NameAt(prov, kinds[i].label),
         content |-> <<"dotted", 0>>]]

\* the service's answer to one list request: the first page
FirstPage(s) == SubSeq(s, 1, Min(Len(s), PageLimit))

RemoveIDs(recs, ids) == SelectSeq(recs, LAMBDA r : r.id \notin ids)

----------------------------------------------------------------------------
(* CloudflareProvider *)

\* getZoneName: the cached name, or the fetched one (cached), or an error
getZoneName(zn) ==
    IF zn # "" THEN {[err |-> FALSE, zoneName |-> zn]}
    ELSE { [err |-> TRUE,  zoneName |-> zn],
           [err |-> FALSE, zoneName |-> ServerZoneName] }

buildFQDN(zn, subdomain) ==
    IF subdomain = "" \/ subdomain = "@" THEN <<zn>> ELSE <<subdomain, zn>>

\* GET dns_records?type=..&name=..: the service filters, the code keeps `result`
cfListRecords(recs, name, recordType) ==
    FirstPage(SelectSeq(recs, LAMBDA r : r.type = recordType /\ r.name = name))

----------------------------------------------------------------------------
(* VercelProvider *)

\* GET /v4/domains/<domain>/records: the code keeps `records`, not `pagination`
vercelListRecords(recs) == FirstPage(recs)

vercelMatching(listed, subdomain, recordType) ==
    SelectSeq(listed, LAMBDA r : r.type = recordType /\ r.name = subdomain)

----------------------------------------------------------------------------
(* Both providers: the delete loop and the create loop.  An outcome is     *)
(* [err, records, zoneName, gone, made]: the error returned, the zone's    *)
(* records and the cached zone name afterwards, the records deleted and    *)
(* created by the call.                                                    *)

RecordType(ipv6) == IF ipv6 THEN "AAAA" ELSE "A"

\* for _, rec := range records { deleteRecord(rec.ID) }: the first k succeed
DeleteLoop(recs, zn, toDelete) ==
    { [err |-> k < Len(toDelete),
       records |-> RemoveIDs(recs, {toDelete[i].id : i \in 1..k}),
       zoneName |-> zn,
       gone |-> SubSeq(toDelete, 1, k),
       made |-> <<>>] : k \in 0..Len(toDelete) }

Failed(recs, zn) ==
    [err |-> TRUE, records |-> recs, zoneName |-> zn, gone |-> <<>>, made |-> <<>>]

CloudflareDeleteRecords(recs, zn, subdomain, ipv6) ==
    UNION { IF z.err THEN {Failed(recs, z.zoneName)}
            ELSE  {Failed(recs, z.zoneName)}   \* listRecords fails
                  \cup DeleteLoop(recs, z.zoneName,
                           cfListRecords(recs, buildFQDN(z.zoneName, subdomain),
                                         RecordType(ipv6)))
          : z \in getZoneName(zn) }

VercelDeleteRecords(recs, zn, subdomain, ipv6) ==
    {Failed(recs, zn)}   \* listRecords fails
    \cup DeleteLoop(recs, zn,
             vercelMatching(vercelListRecords(recs), subdomain, RecordType(ipv6)))

DeleteRecords(prov, recs, zn, subdomain, ipv6) ==
    IF prov = "cloudflare" THEN CloudflareDeleteRecords(recs, zn, subdomain, ipv6)
    ELSE VercelDeleteRecords(recs, zn, subdomain, ipv6)

\* the record type CreateRecords sends for ip
CreateType(ip) == IF Is6(ip) THEN "AAAA" ELSE "A"

NewRecords(name, addrs, id0) ==
    [i \in 1..Len(addrs) |->
        [id |-> id0 + i - 1, type |-> CreateType(addrs[i]), name |-> name,
         content |-> AddrString(addrs[i])]]

\* for _, ip := range ips { createRecord(...) }: the first k succeed
CreateLoop(recs, zn, name, addrs, id0) ==
    { [err |-> k < Len(addrs),
       records |-> recs \o SubSeq(NewRecords(name, addrs, id0), 1, k),
       zoneName |-> zn,
       gone |-> <<>>,
       made |-> SubSeq(NewRecords(name, addrs, id0), 1, k)] : k \in 0..Len(addrs) }

CloudflareCreateRecords(recs, zn, subdomain, addrs, id0) ==
    UNION { IF z.err THEN {Failed(recs, z.zoneName)}
            ELSE CreateLoop(recs, z.zoneName, buildFQDN(z.zoneName, subdomain),
                            addrs, id0)
          : z \in getZoneName(zn) }

VercelCreateRecords(recs, zn, subdomain, addrs, id0) ==
    CreateLoop(recs, zn, subdomain, addrs, id0)

CreateRecords(prov, recs, zn, subdomain, addrs, id0) ==
    IF prov = "cloudflare" THEN CloudflareCreateRecords(recs, zn, subdomain, addrs, id0)
    ELSE VercelCreateRecords(recs, zn, subdomain, addrs, id0)

----------------------------------------------------------------------------
(* NewProvider *)

ErrUnknown == "unknown DNS provider"
ErrToken   == "API token required"
ErrZone    == "zone required"

NoProvider(err) ==
    [done |-> TRUE, isNil |-> TRUE, name |-> "", token |-> "", zone |-> "",
     teamID |-> "", err |-> err]

SomeProvider(name, token, zone, teamID) ==
    [done |-> TRUE, isNil |-> FALSE, name |-> name, token |-> token, zone |-> zone,
     teamID |-> teamID, err |-> "nil"]

\* x, or os.Getenv(key) when x is empty
OrEnv(x, e, key) == IF x = "" THEN e[key] ELSE x

\* the mutant: the Vercel domain falls back to CF_ZONE_ID as the Cloudflare zone does
NewProviderEnvZone(c, e) ==
    IF c.Provider = "cloudflare" \/ c.Provider = "vercel" THEN
        LET token == OrEnv(c.Token, e, IF c.Provider = "vercel" THEN "VERCEL_TOKEN"
                                       ELSE "CF_API_TOKEN")
            zone  == OrEnv(c.Zone, e, "CF_ZONE_ID")
            team  == IF c.Provider = "vercel"
                     THEN OrEnv(c.TeamID, e, "VERCEL_TEAM_ID") ELSE ""
        IN  IF token = "" THEN NoProvider(ErrToken)
            ELSE IF zone = "" THEN NoProvider(ErrZone)
            ELSE SomeProvider(c.Provider, token, zone, team)
    ELSE NoProvider(ErrUnknown)

NewProvider(c, e) ==
    IF c.Provider = "cloudflare" THEN
        LET token == OrEnv(c.Token, e, "CF_API_TOKEN")
            zone  == OrEnv(c.Zone, e, "CF_ZONE_ID")
        IN  IF token = "" THEN NoProvider(ErrToken)
            ELSE IF zone = "" THEN NoProvider(ErrZone)
            ELSE SomeProvider("cloudflare", token, zone, "")
    ELSE IF c.Provider = "vercel" THEN
        LET token  == OrEnv(c.Token, e, "VERCEL_TOKEN")
            teamID == OrEnv(c.TeamID, e, "VERCEL_TEAM_ID")
            domain == c.Zone
        IN  IF token = "" THEN NoProvider(ErrToken)
            ELSE IF domain = "" THEN NoProvider(ErrZone)
            ELSE SomeProvider("vercel", token, domain, teamID)
    ELSE NoProvider(ErrUnknown)

Pending ==
    [done |-> FALSE, isNil |-> TRUE, name |-> "", token |-> "", zone |-> "",
     teamID |-> "", err |-> "nil"]

ProviderNames == {"cloudflare", "vercel", "Cloudflare", ""}

Configs ==
    [Provider : ProviderNames, Token : {"", "cfg-token"}, Zone : {"", "cfg-zone"},
     TeamID : {"", "cfg-team"}]

Envs ==
    [{"CF_API_TOKEN", "CF_ZONE_ID", "VERCEL_TOKEN", "VERCEL_TEAM_ID"}
        -> {"", "env-value"}]

----------------------------------------------------------------------------
(* Upload *)

\* Upload's position after a provider call: return the error, or go on
AfterCallIgnoringError(err, nextPc) == nextPc

AfterCall(err, nextPc) == IF err THEN "done" ELSE nextPc

\* if len(v6) > 0 { delete AAAA; create AAAA }; return nil
AfterV4Phase(six) == IF Len(six) > 0 THEN "deleteAAAA" ELSE "done"

\* the mutant: the existing A records are not deleted first
AfterPartitionNoDelete(four, six) ==
    IF Len(four) > 0 THEN "createA" ELSE AfterV4Phase(six)

\* if len(v4) > 0 { delete A; create A }
AfterPartition(four, six) ==
    IF Len(four) > 0 THEN "deleteA" ELSE AfterV4Phase(six)

Call(op, ipv6, err) == [op |-> op, ipv6 |-> ipv6, ok |-> ~err]

\* one provider call of Upload and what Upload does with its result
Apply(op, ipv6, o, label, nextPc) ==
    /\ records' = o.records
    /\ zoneName' = o.zoneName
    /\ deleted' = deleted \o o.gone
    /\ created' = created \o o.made
    /\ nextID' = nextID + Len(o.made)
    /\ calls' = Append(calls, Call(op, ipv6, o.err))
    /\ pc' = AfterCall(o.err, nextPc)
    /\ uploadErr' = IF pc' # "done" THEN "running"
                    ELSE IF o.err THEN label ELSE "nil"
    /\ UNCHANGED <<provider, ips, records0, v4, v6, newVars, searchVars>>

UploadStart ==
    /\ pc = "start"
    /\ IF Len(ips) = 0
       THEN /\ pc' = "done"
            /\ uploadErr' = "nil"
            /\ UNCHANGED <<v4, v6>>
       ELSE /\ v4' = SelectSeq(ips, Is4)
            /\ v6' = SelectSeq(ips, LAMBDA ip : ~Is4(ip))
            /\ pc' = AfterPartition(v4', v6')
            /\ uploadErr' = "running"
    /\ UNCHANGED <<provider, ips, records, records0, zoneName, nextID, calls,
                   created, deleted, newVars, searchVars>>

UploadDeleteA ==
    /\ pc = "deleteA"
    /\ \E o \in DeleteRecords(provider, records, zoneName, Subdomain, FALSE) :
          Apply("DeleteRecords", FALSE, o, "delete A records", "createA")

UploadCreateA ==
    /\ pc = "createA"
    /\ \E o \in CreateRecords(provider, records, zoneName, Subdomain, v4, nextID) :
          Apply("CreateRecords", FALSE, o, "create A records", AfterV4Phase(v6))

UploadDeleteAAAA ==
    /\ pc = "deleteAAAA"
    /\ \E o \in DeleteRecords(provider, records, zoneName, Subdomain, TRUE) :
          Apply("DeleteRecords", TRUE, o, "delete AAAA records", "createAAAA")

UploadCreateAAAA ==
    /\ pc = "createAAAA"
    /\ \E o \in CreateRecords(provider, records, zoneName, Subdomain, v6, nextID) :
          Apply("CreateRecords", TRUE, o, "create AAAA records", "done")

----------------------------------------------------------------------------
(* The search engine: one coordinator (dispatch + ingest), a pool of        *)
(* workers, a bounded dispatch channel and a bounded result channel.       *)
(* Thompson draws, rewards and means are real-valued: the arm a head        *)
(* selects, whether an arm's mean reaches the split threshold, and which   *)
(* arms have the smallest mean at eviction are choices over all outcomes.  *)

\* budget: the total number of probes
Budget == 3

\* concurrency: the number of workers, and the dispatch channel's capacity
Concurrency == 2

\* the result channel's capacity
ResultCap == 2

\* heads
Heads == 2

\* beam: the most arms a head keeps
Beam == 2

\* max_bits of the roots' family
MaxBits == 3

\* split_interval
SplitInterval == 1

\* min_samples_split
MinSamplesSplit == 1

HeadIDs == 1..Heads

\* no probe: a worker that is not probing
NoJob == [head |-> 0, arm |-> 0]

WorkerIDs == 1..Concurrency

\* a prefix is leaf-eligible if bits >= max-bits
LeafEligible(bits) == bits >= MaxBits

\* the mutant: split never refuses
SplitNeverFails(bits, step) == FALSE

\* split(prefix, step) fails if bits + step > max-bits
SplitFails(bits, step) == bits + step > MaxBits

RECURSIVE Pow2(_)
Pow2(k) == IF k = 0 THEN 1 ELSE 2 * Pow2(k - 1)

\* split produces 2^step children of width bits + step
Fanout(step) == Pow2(step)

\* the children of a split, with fresh birth numbers in order, no visits yet
Children(bits, step, birth0) ==
    [i \in 1..Fanout(step) |-> [birth |-> birth0 + i, bits |-> bits + step, n |-> 0]]

\* the mutant: a dispatch does not take from the budget
KeepBudget(b) == b

\* Decrement B
DecrementBudget(b) == b - 1

RECURSIVE SumN(_)
SumN(beam) == IF beam = <<>> THEN 0 ELSE Head(beam).n + SumN(Tail(beam))

RECURSIVE SumAll(_, _)
\* the sum of the visit counts n over the beams of heads 1..h
SumAll(bs, h) == IF h = 0 THEN 0 ELSE SumN(bs[h]) + SumAll(bs, h - 1)

RECURSIVE Pick(_, _, _)
\* the subsequence of s at the positions (offset by i) in keep
Pick(s, keep, i) ==
    IF s = <<>> THEN <<>>
    ELSE IF i \in keep THEN <<Head(s)>> \o Pick(Tail(s), keep, i + 1)
    ELSE Pick(Tail(s), keep, i + 1)

\* the beams a beam may be cut down to: itself if it fits, else any Beam of its arms
Evictions(beam) ==
    IF Len(beam) <= Beam THEN {beam}
    ELSE {Pick(beam, keep, 1) :
            keep \in {k \in SUBSET (1..Len(beam)) : Cardinality(k) = Beam}}

RemoveAt(s, i) == SubSeq(s, 1, i - 1) \o SubSeq(s, i + 1, Len(s))

\* the split check of an ingestion, on the arm as updated
SplitDue(arm) ==
    /\ arm.n % SplitInterval = 0
    /\ arm.n >= MinSamplesSplit
    /\ ~LeafEligible(arm.bits)

\* the mutant: the coordinator stops without waiting for the pool
DrainCompleteAtOnce == TRUE

\* the in-flight probes are drained: every worker has left, no result waits
DrainComplete ==
    /\ \A w \in WorkerIDs : workers[w].st = "exited"
    /\ resultQ = <<>>

SearchIdle ==
    /\ splitStep = 1
    /\ rootBits = 0
    /\ B = 0
    /\ cancelled = FALSE
    /\ beams = <<>>
    /\ birth = 0
    /\ turn = 1
    /\ coordPc = "idle"
    /\ dispatchQ = <<>>
    /\ closed = FALSE
    /\ workers = <<>>
    /\ resultQ = <<>>
    /\ dispatched = 0
    /\ started = 0
    /\ ingested = 0

\* step 3 of the main loop: serve head `turn`, select an arm, decrement B, submit
Dispatch ==
    /\ coordPc = "loop"
    /\ ~cancelled
    /\ B > 0
    /\ Len(dispatchQ) < Concurrency
    /\ \E i \in 1..Len(beams[turn]) :
          dispatchQ' = Append(dispatchQ, [head |-> turn, arm |-> beams[turn][i].birth])
    /\ B' = DecrementBudget(B)
    /\ dispatched' = dispatched + 1
    /\ turn' = (turn % Heads) + 1
    /\ UNCHANGED <<splitStep, rootBits, cancelled, beams, birth, coordPc, closed,
                   workers, resultQ, started, ingested, dnsVars, newVars>>

\* step 4 of the main loop: ingest one result (update, split check, eviction)
Ingest ==
    /\ coordPc \in {"loop", "drain"}
    /\ resultQ # <<>>
    /\ LET r == Head(resultQ)
           beam == beams[r.head]
           at == {i \in 1..Len(beam) : beam[i].birth = r.arm}
       IN  IF at = {}
           THEN UNCHANGED <<beams, birth>>
           ELSE LET i == CHOOSE j \in at : TRUE
                    arm == [beam[i] EXCEPT !.n = @ + 1]
                IN  \/ /\ beams' = [beams EXCEPT ![r.head][i] = arm]
                       /\ UNCHANGED birth
                    \/ /\ SplitDue(arm)
                       /\ ~SplitFails(arm.bits, splitStep)
                       /\ \E kept \in Evictions(RemoveAt(beam, i)
                                        \o Children(arm.bits, splitStep, birth)) :
                             beams' = [beams EXCEPT ![r.head] = kept]
                       /\ birth' = birth + Fanout(splitStep)
    /\ resultQ' = Tail(resultQ)
    /\ ingested' = ingested + 1
    /\ UNCHANGED <<splitStep, rootBits, B, cancelled, turn, coordPc, dispatchQ,
                   closed, workers, dispatched, started, dnsVars, newVars>>

\* step 5: B == 0 or cancellation: stop dispatching, close the dispatch channel
StopDispatching ==
    /\ coordPc = "loop"
    /\ (B = 0 \/ cancelled)
    /\ coordPc' = "drain"
    /\ closed' = TRUE
    /\ UNCHANGED <<splitStep, rootBits, B, cancelled, beams, birth, turn, dispatchQ,
                   workers, resultQ, dispatched, started, ingested, dnsVars, newVars>>

Finish ==
    /\ coordPc = "drain"
    /\ DrainComplete
    /\ coordPc' = "done"
    /\ UNCHANGED <<splitStep, rootBits, B, cancelled, beams, birth, turn, dispatchQ,
                   closed, workers, resultQ, dispatched, started, ingested,
                   dnsVars, newVars>>

\* top of the worker loop: not cancelled, a probe waits: take it
WorkerTake(w) ==
    /\ workers[w].st = "idle"
    /\ ~cancelled
    /\ dispatchQ # <<>>
    /\ workers' = [workers EXCEPT ![w] = [st |-> "probing", job |-> Head(dispatchQ)]]
    /\ dispatchQ' = Tail(dispatchQ)
    /\ started' = started + 1
    /\ UNCHANGED <<splitStep, rootBits, B, cancelled, beams, birth, turn, coordPc,
                   closed, resultQ, dispatched, ingested, dnsVars, newVars>>

\* the probe is over (or cut short between rounds): post the result
WorkerPost(w) ==
    /\ workers[w].st = "probing"
    /\ Len(resultQ) < ResultCap
    /\ resultQ' = Append(resultQ, workers[w].job)
    /\ workers' = [workers EXCEPT ![w] = [st |-> "idle", job |-> NoJob]]
    /\ UNCHANGED <<splitStep, rootBits, B, cancelled, beams, birth, turn, coordPc,
                   dispatchQ, closed, dispatched, started, ingested, dnsVars, newVars>>

\* top of the worker loop: cancelled, or the channel is closed and empty: leave
WorkerExit(w) ==
    /\ workers[w].st = "idle"
    /\ (cancelled \/ (closed /\ dispatchQ = <<>>))
    /\ workers' = [workers EXCEPT ![w] = [st |-> "exited", job |-> NoJob]]
    /\ UNCHANGED <<splitStep, rootBits, B, cancelled, beams, birth, turn, coordPc,
                   dispatchQ, closed, resultQ, dispatched, started, ingested,
                   dnsVars, newVars>>

\* the operator's signal
Cancel ==
    /\ ~cancelled
    /\ coordPc # "done"
    /\ cancelled' = TRUE
    /\ UNCHANGED <<splitStep, rootBits, B, beams, birth, turn, coordPc, dispatchQ,
                   closed, workers, resultQ, dispatched, started, ingested,
                   dnsVars, newVars>>

----------------------------------------------------------------------------
(* Specifications *)

NewIdle ==
    /\ cfg = [Provider |-> "", Token |-> "", Zone |-> "", TeamID |-> ""]
    /\ env = [k \in {"CF_API_TOKEN", "CF_ZONE_ID", "VERCEL_TOKEN", "VERCEL_TEAM_ID"}
                |-> ""]
    /\ result = Pending

DNSIdle ==
    /\ provider = "cloudflare"
    /\ ips = <<>>
    /\ records = <<>>
    /\ records0 = <<>>
    /\ zoneName = ""
    /\ nextID = 1
    /\ pc = "idle"
    /\ v4 = <<>>
    /\ v6 = <<>>
    /\ uploadErr = "running"
    /\ calls = <<>>
    /\ created = <<>>
    /\ deleted = <<>>

InitDNS ==
    /\ provider \in {"cloudflare", "vercel"}
    /\ ips \in SeqsUpTo(Addrs, MaxIPs)
    /\ \E kinds \in SeqsUpTo(ExistingKinds, MaxExisting) :
          /\ records = ExistingRecords(provider, kinds)
          /\ records0 = records
          /\ nextID = Len(kinds) + 1
    /\ zoneName = ""
    /\ pc = "start"
    /\ v4 = <<>>
    /\ v6 = <<>>
    /\ uploadErr = "running"
    /\ calls = <<>>
    /\ created = <<>>
    /\ deleted = <<>>
    /\ NewIdle
    /\ SearchIdle

NextDNS ==
    \/ UploadStart
    \/ UploadDeleteA
    \/ UploadCreateA
    \/ UploadDeleteAAAA
    \/ UploadCreateAAAA

SpecDNS == InitDNS /\ [][NextDNS]_vars

InitNew ==
    /\ cfg \in Configs
    /\ env \in Envs
    /\ result = Pending
    /\ DNSIdle
    /\ SearchIdle

CallNewProvider ==
    /\ ~result.done
    /\ result' = NewProvider(cfg, env)
    /\ UNCHANGED <<cfg, env, dnsVars, searchVars>>

NextNew == CallNewProvider

SpecNew == InitNew /\ [][NextNew]_vars

InitSearch ==
    /\ splitStep \in {1, 2}
    /\ rootBits \in {0, 1}
    /\ B = Budget
    /\ cancelled = FALSE
    /\ beams = [h \in HeadIDs |-> <<[birth |-> h, bits |-> rootBits, n |-> 0]>>]
    /\ birth = Heads
    /\ turn = 1
    /\ coordPc = "loop"
    /\ dispatchQ = <<>>
    /\ closed = FALSE
    /\ workers = [w \in WorkerIDs |-> [st |-> "idle", job |-> NoJob]]
    /\ resultQ = <<>>
    /\ dispatched = 0
    /\ started = 0
    /\ ingested = 0
    /\ DNSIdle
    /\ NewIdle

Coordinator == Dispatch \/ Ingest \/ StopDispatching \/ Finish

Worker(w) == WorkerTake(w) \/ WorkerPost(w) \/ WorkerExit(w)

NextSearch ==
    \/ Dispatch
    \/ Ingest
    \/ StopDispatching
    \/ Finish
    \/ \E w \in WorkerIDs : WorkerTake(w)
    \/ \E w \in WorkerIDs : WorkerPost(w)
    \/ \E w \in WorkerIDs : WorkerExit(w)
    \/ Cancel

SpecSearch == InitSearch /\ [][NextSearch]_vars

\* the coordinator and every worker keep running; the operator may never cancel
SpecSearchFair ==
    /\ InitSearch
    /\ [][NextSearch]_vars
    /\ WF_vars(Coordinator)
    /\ \A w \in WorkerIDs : WF_vars(Worker(w))

----------------------------------------------------------------------------
(* Claims about package dns *)

TargetName == NameAt(provider, Subdomain)

TypesOf(recs) == {recs[i].type : i \in 1..Len(recs)}

\* C1: whenever DeleteRecords(subdomain, ipv6) returns nil, no record of the
\* requested type (A when ipv6 is false, AAAA when it is true) for the target
\* name remains at the provider, however many there were before the call.
C1_DeleteLeavesNone ==
    (calls # <<>> /\ Last(calls).op = "DeleteRecords" /\ Last(calls).ok)
    => \A i \in 1..Len(records) :
          ~(records[i].type = RecordType(Last(calls).ipv6)
            /\ records[i].name = TargetName)

\* C2: when Upload completes without error, exactly one record was created per
\* input address, in input order within a family, every address of the IPv4
\* group (ip.Is4()) as an A record and every address of the other group as an
\* AAAA record.
C2_OneRecordPerAddress ==
    (pc = "done" /\ uploadErr = "nil")
    => LET g4 == SelectSeq(ips, Is4)
           g6 == SelectSeq(ips, LAMBDA ip : ~Is4(ip))
           want == [i \in 1..Len(g4) |-> <<"A", AddrString(g4[i])>>]
                   \o [i \in 1..Len(g6) |-> <<"AAAA", AddrString(g6[i])>>]
           got == [i \in 1..Len(created) |-> <<created[i].type, created[i].content>>]
       IN  got = want

\* C3: deletion precedes creation: CreateRecords for a family is called only
\* right after DeleteRecords for that family returned nil, DeleteRecords is
\* called at most once per family, and every call of the IPv4 phase (delete A,
\* create A) comes before every call of the IPv6 phase.
C3_DeleteBeforeCreate ==
    /\ \A i \in 1..Len(calls) :
          calls[i].op = "CreateRecords"
          => /\ i > 1
             /\ calls[i - 1] = Call("DeleteRecords", calls[i].ipv6, FALSE)
    /\ \A i, j \in 1..Len(calls) :
          (i < j /\ calls[i].op = "DeleteRecords" /\ calls[j].op = "DeleteRecords")
          => calls[i].ipv6 # calls[j].ipv6
    /\ \A i, j \in 1..Len(calls) :
          (i < j /\ calls[i].ipv6) => calls[j].ipv6
    /\ (\E j \in 1..Len(calls) : calls[j].ipv6) /\ Len(v4) > 0
          => /\ calls[1] = Call("DeleteRecords", FALSE, FALSE)
             /\ calls[2] = Call("CreateRecords", FALSE, FALSE)

\* both phases ran to the end
C3_Witness ==
    /\ pc = "done"
    /\ uploadErr = "nil"
    /\ Len(calls) = 4
    /\ calls[4] = Call("CreateRecords", TRUE, FALSE)

ErrLabel(c) ==
    (IF c.op = "DeleteRecords" THEN "delete " ELSE "create ")
    \o RecordType(c.ipv6) \o " records"

\* C8: Upload is fail-fast: the first provider call that returns an error is
\* the last call Upload makes, Upload returns a non-nil error wrapping it, and a
\* failure in the IPv4 phase leaves the AAAA records neither deleted nor created.
C8_FailFast ==
    /\ \A i \in 1..Len(calls) :
          ~calls[i].ok
          => /\ i = Len(calls)
             /\ pc = "done"
             /\ uploadErr = ErrLabel(calls[i])
             /\ (~calls[i].ipv6
                   => "AAAA" \notin TypesOf(deleted) \cup TypesOf(created))
    /\ (pc = "done" /\ uploadErr # "nil") => (calls # <<>> /\ ~Last(calls).ok)

\* a call of the IPv4 phase failed while AAAA records existed and IPv6
\* addresses were waiting
C8_Witness ==
    /\ pc = "done"
    /\ calls # <<>>
    /\ ~Last(calls).ok
    /\ ~Last(calls).ipv6
    /\ Len(v6) > 0
    /\ \E i \in 1..Len(records) :
          records[i].type = "AAAA" /\ records[i].name = TargetName

\* C9: Upload makes no provider call for a family it was given no address of:
\* with no IPv4 address in the input no A record is deleted or created, with no
\* IPv6 address no AAAA record is deleted or created, and with an empty input
\* Upload returns nil without any provider call, the records unchanged.
C9_NoCallForAbsentFamily ==
    /\ (\A i \in 1..Len(ips) : ~Is4(ips[i]))
          => "A" \notin TypesOf(deleted) \cup TypesOf(created)
    /\ (\A i \in 1..Len(ips) : ~Is6(ips[i]))
          => "AAAA" \notin TypesOf(deleted) \cup TypesOf(created)
    /\ (ips = <<>> /\ pc = "done")
          => (uploadErr = "nil" /\ calls = <<>> /\ records = records0)

\* C4: NewProvider returns a provider and a nil error exactly when the name is
\* "cloudflare" or "vercel" and the resolved token and zone are non-empty, a
\* Config value taking precedence over the environment (token: CF_API_TOKEN or
\* VERCEL_TOKEN; zone: CF_ZONE_ID for cloudflare only); otherwise a nil
\* provider and an error, a missing token reported before a missing zone.
C4_NewProvider ==
    LET name  == cfg.Provider
        known == name \in {"cloudflare", "vercel"}
        token == IF cfg.Token # "" THEN cfg.Token
                 ELSE IF name = "cloudflare" THEN env["CF_API_TOKEN"]
                 ELSE env["VERCEL_TOKEN"]
        zone  == IF cfg.Zone # "" THEN cfg.Zone
                 ELSE IF name = "cloudflare" THEN env["CF_ZONE_ID"]
                 ELSE ""
        good  == known /\ token # "" /\ zone # ""
    IN  result.done
        => /\ (~result.isNil /\ result.err = "nil") <=> good
           /\ ~good => (result.isNil /\ result.err # "nil")
           /\ good => (result.name = name /\ result.token = token
                       /\ result.zone = zone)
           /\ (known /\ token = "") => result.err = ErrToken
           /\ (known /\ token # "" /\ zone = "") => result.err = ErrZone
           /\ ~known => result.err = ErrUnknown

\* vercel with a token, no --dns-zone and CF_ZONE_ID set: the domain is missing
C4_Witness ==
    /\ result.done
    /\ cfg.Provider = "vercel"
    /\ cfg.Token = ""
    /\ env["VERCEL_TOKEN"] # ""
    /\ cfg.Zone = ""
    /\ env["CF_ZONE_ID"] # ""
    /\ result.isNil
    /\ result.err = ErrZone

----------------------------------------------------------------------------
(* Claims about the search engine *)

\* C5: the sum of the visit counts n over all arms in all beams is at most
\* initial_budget - remaining_budget, and the number of probes dispatched over
\* the run (hence the number of results the aggregator ingests) never exceeds
\* the initial budget.
C5_VisitsWithinBudget ==
    /\ SumAll(beams, Heads) <= Budget - B
    /\ B >= 0
    /\ dispatched <= Budget
    /\ ingested <= dispatched

\* the whole budget was probed and ingested, and a split or an eviction has
\* dropped visits from the beams
C5_Witness ==
    /\ coordPc = "done"
    /\ B = 0
    /\ ingested = Budget
    /\ SumAll(beams, Heads) > 0
    /\ SumAll(beams, Heads) < Budget

\* C6: no prefix in any head's beam has bits greater than max_bits: from a
\* root of width w every arm has width w + k * split_step for some k >= 0, and
\* at most max_bits.
C6_BitsWithinMax ==
    \A h \in HeadIDs : \A i \in 1..Len(beams[h]) :
        /\ beams[h][i].bits <= MaxBits
        /\ beams[h][i].bits >= rootBits
        /\ (beams[h][i].bits - rootBits) % splitStep = 0

\* a head's beam is full after a split and an eviction, and one of its arms of
\* width max_bits has been visited
C6_Witness ==
    \E h \in HeadIDs :
        /\ Len(beams[h]) = Beam
        /\ \E i \in 1..Len(beams[h]) :
              /\ beams[h][i].bits = MaxBits
              /\ beams[h][i].bits > rootBits
              /\ beams[h][i].n > 0

====
